---------------------------- MODULE Spec2Model ----------------------------
(***************************************************************************)
(* Model of the SharePoint upload client of ops-kit:                       *)
(*   src/src/opskit/sharepoint/client.py  (SharePointClient, iter_local,   *)
(*                                         count_files)                    *)
(*   src/src/opskit/sharepoint/cli.py     (upload_cmd)                     *)
(*                                                                         *)
(* Python strings are modelled as sequences of one-character strings, so   *)
(* that strip, split, endswith and the f-string joins of the code are      *)
(* computed character by character.                                        *)
(***************************************************************************)
EXTENDS Integers, Sequences, FiniteSets, TLC

(***************************************************************************)
(* Bounds of the model.                                                    *)
(***************************************************************************)
\* largest retry_max drawn for a stand-alone _request_with_retry call
MaxRetry == 3
\* largest retry_backoff base drawn (integers stand for the float base)
MaxBackoff == 3
\* longest parentReference.path drawn for get_server_relative_path
MaxPathLen == 6
\* longest item name drawn for get_server_relative_path
MaxNameLen == 2
\* largest retry_max drawn for the client and for a run
MaxRunRetry == 2
\* most files drawn for one local directory
MaxFiles == 1
\* largest file size drawn for a stand-alone upload_file call
MaxSize == 3
\* largest chunk_size drawn for a stand-alone upload_file call
MaxChunk == 2
\* largest small_upload_max drawn for a stand-alone upload_file call
MaxSmall == 1

\* the acquisitions and lookups a client makes over its repeated ensure_connected calls
MaxConnects == 4

(***************************************************************************)
(* Python string helpers.                                                  *)
(***************************************************************************)
SL == "/"
CO == ":"

\* all sequences over S of length 0..n
RECURSIVE StringsUpTo(_, _)
StringsUpTo(S, n) ==
    IF n = 0 THEN {<<>>}
    ELSE LET shorter == StringsUpTo(S, n - 1)
         IN  shorter \cup {Append(s, c) : s \in {t \in shorter : Len(t) = n - 1}, c \in S}

\* s.lstrip("/")
RECURSIVE LStrip(_)
LStrip(s) == IF s # <<>> /\ Head(s) = SL THEN LStrip(Tail(s)) ELSE s

\* s.rstrip("/")
RECURSIVE RStrip(_)
RStrip(s) ==
    IF s # <<>> /\ s[Len(s)] = SL THEN RStrip(SubSeq(s, 1, Len(s) - 1)) ELSE s

\* s.strip("/")
Strip(s) == RStrip(LStrip(s))

\* s.endswith(":")
EndsWithColon(s) == s # <<>> /\ s[Len(s)] = CO

\* index of the first occurrence of ":/" in s, 0 when there is none
FindColonSlash(s) ==
    LET hits == {i \in 1..(Len(s) - 1) : s[i] = CO /\ s[i + 1] = SL}
    IN  IF hits = {} THEN 0 ELSE CHOOSE i \in hits : \A j \in hits : i <= j

\* s.split(":/", 1)[1], for an s that contains ":/"
AfterColonSlash(s) == SubSeq(s, FindColonSlash(s) + 2, Len(s))

\* s.split("/"): the pieces between the slashes, empty pieces kept
RECURSIVE SplitSlash(_)
SplitSlash(s) ==
    LET hits == {i \in 1..Len(s) : s[i] = SL}
    IN  IF hits = {} THEN <<s>>
        ELSE LET i == CHOOSE k \in hits : \A j \in hits : k <= j
             IN  <<SubSeq(s, 1, i - 1)>> \o SplitSlash(SubSeq(s, i + 1, Len(s)))

\* "/".join(parts)
RECURSIVE JoinSlash(_)
JoinSlash(parts) ==
    IF parts = <<>> THEN <<>>
    ELSE IF Len(parts) = 1 THEN parts[1]
    ELSE parts[1] \o <<SL>> \o JoinSlash(Tail(parts))

\* b ** n for n >= 0
RECURSIVE Pow(_, _)
Pow(b, n) == IF n <= 0 THEN 1 ELSE b * Pow(b, n - 1)

(***************************************************************************)
(* driveItem JSON, as far as the client reads it.                          *)
(*   name : the "name" field, <<>> when absent (item_json.get("name", ""))  *)
(*   pref : "none"   no parentReference (or an empty one: falsy),          *)
(*          "nopath" a parentReference without "path",                     *)
(*          "path"   a parentReference whose "path" is ppath               *)
(***************************************************************************)
Item(id, name, pref, ppath) ==
    [id |-> id, name |-> name, pref |-> pref, ppath |-> ppath]

NoItem == [id |-> <<"?">>, name |-> <<>>, pref |-> "none", ppath |-> <<>>]

\* a variant of get_server_relative_path: the parent's path, without the name
get_server_relative_path_drop_name(item_json) ==
    LET parent_path == IF item_json.pref = "path" THEN item_json.ppath ELSE <<>>
        base == IF parent_path # <<>> /\ EndsWithColon(parent_path) THEN <<>>
                ELSE IF parent_path # <<>> /\ FindColonSlash(parent_path) # 0
                     THEN AfterColonSlash(parent_path)
                ELSE <<>>
    IN  IF base # <<>> THEN Strip(base) ELSE <<>>

\* SharePointClient.get_server_relative_path, client.py 82-99
get_server_relative_path(item_json) ==
    LET parent_path == IF item_json.pref = "path" THEN item_json.ppath ELSE <<>>
        name == item_json.name
        base == IF parent_path # <<>> /\ EndsWithColon(parent_path) THEN <<>>
                ELSE IF parent_path # <<>> /\ FindColonSlash(parent_path) # 0
                     THEN AfterColonSlash(parent_path)
                ELSE <<>>
    IN  IF base # <<>>
        THEN (IF name # <<>> THEN Strip(base \o <<SL>> \o name) ELSE Strip(base))
        ELSE Strip(name)


(***************************************************************************)
(* Program constants.                                                      *)
(***************************************************************************)
\* _request_with_retry: the statuses that are retried, client.py 160
Transient == {429, 500, 502, 503, 504}

\* statuses a remote can answer with
Statuses == Transient \cup {200, 201, 202, 400, 404, 409}

\* requests.Response.ok: status below 400
RespOk(status) == status < 400

\* _chunked_upload: the statuses that accept a chunk, client.py 330
ChunkAccepted == {200, 201, 202}

None == "None"
\* an optional argument: not given (Python's None default), or given as v
NotGiven == <<>>
Given(v) == <<v>>
\* resp before the first request of a call: the local is not bound yet, client.py 158-167
NoResp == -1

\* the kinds of request the client sends
Ops == {"site", "drive", "lookup", "create", "put", "session", "chunk", "any"}

(***************************************************************************)
(* State.                                                                  *)
(***************************************************************************)
VARIABLES
    pc,        \* the statement the program is at
    outcome,   \* "running", "returned", "done", "nothing" or "error"
    sp,        \* the SharePointClient: retry_max, retry_backoff, _token, _site_id, _drive_id
    args,      \* the options of upload_cmd / the arguments of upload_file
    local,     \* the local tree: its directories and the number of files in each
    remote,    \* the remote drive: the paths of its folders (the root always exists)
    rootItem,  \* the driveItem the remote returns for the drive root
    http,      \* the _request_with_retry call in progress
    attempt,   \* its loop variable
    reqs,      \* the statuses of the requests it has issued
    sleeps,    \* the durations it has slept
    resp,      \* its local variable resp
    body,      \* resp.json() as far as the caller reads it
    connRet,   \* where ensure_connected returns to
    efp,       \* ensure_folder_path: folder_path, the parts left, current, its caller
    walk,      \* upload_cmd: target_path, the directories left, folder_path_in_drive, files left
    up,        \* upload_file / _chunked_upload: size, file content length, dest, bytes_sent, ...
    hist,      \* what the run has done so far (requests by kind, folders created, ...)
    pathArg,   \* get_server_relative_path called on its own: the argument
    pathRes    \* ... and the result

vars == <<pc, outcome, sp, args, local, remote, rootItem, http, attempt, reqs, sleeps,
          resp, body, connRet, efp, walk, up, hist, pathArg, pathRes>>

transportVars == <<http, attempt, reqs, sleeps, resp, body>>

\* the requests of upload_file proper
UploadOps == {"put", "session", "chunk"}

ZeroOps == [o \in Ops |-> 0]

\* sent: a request has gone out; calls: the calls of _request_with_retry by kind;
\* creates: the paths of the folders asked for; created: those the remote made;
\* lookups: the paths looked up; tokens: token acquisitions; efpCalls, ufCalls: the
\* calls of ensure_folder_path and upload_file; echoed: the files reported by
\* the dry run; run: 1 for the first run, 2 for a re-run
NoHist == [sent |-> FALSE, calls |-> ZeroOps, created |-> <<>>, creates |-> <<>>,
           lookups |-> <<>>, uploads |-> <<>>, tokens |-> 0,
           efpCalls |-> 0, ufCalls |-> 0, echoed |-> 0, run |-> 1]

NoHttp == [op |-> "any", path |-> <<>>, parent |-> <<>>, name |-> <<>>,
           final |-> FALSE, rm |-> 0, rb |-> 0, ret |-> "end"]

NoEfp == [folder_path |-> <<>>, parts |-> <<>>, current |-> NoItem, caller |-> "end"]

NoWalk == [target_path |-> <<>>, todo |-> <<>>, dir |-> <<>>, folder_path |-> <<>>,
           files |-> 0]

NoUp == [size |-> 0, content |-> 0, dest |-> <<>>, name |-> <<>>, bytes_sent |-> 0,
         fpos |-> 0, chunk_index |-> 0, chunk_len |-> 0, ranges |-> <<>>,
         calls |-> ZeroOps, wire |-> ZeroOps, caller |-> "end"]

NoLocal == [dirs |-> {}, nfiles |-> [d \in {<<>>} |-> 0], files |-> {}]

NoArgs == [target_folder |-> <<>>, conflict_behavior |-> "replace", small_upload_max |-> 0,
           chunk_size |-> 1, retry_max |-> NotGiven, retry_backoff |-> NotGiven,
           dry_run |-> FALSE]

\* SharePointClient.__init__, client.py 13-35
NewClient(retry_max, retry_backoff) ==
    [retry_max |-> retry_max, retry_backoff |-> retry_backoff,
     token |-> None, site_id |-> None, drive_id |-> None]


(***************************************************************************)
(* The remote drive.  Nobody but this client modifies it.  A folder is     *)
(* identified by its path (the remote's opaque id stands in one-to-one     *)
(* correspondence with it); the drive root has the id <<>>.                *)
(***************************************************************************)
\* stands for "/drives/<drive-id>/root", the library-root marker of parentReference.path
Marker == <<"/", "d">>

\* the non-transient faults and the transient ones a remote injects during a run
RunFaults == {400, 503}

ChildPath(parent_id, name) ==
    IF parent_id = <<>> THEN name ELSE parent_id \o <<SL>> \o name

\* the driveItem of the folder at a non-empty path
ItemAt(path) ==
    LET segs == SplitSlash(path)
        n    == Len(segs)
    IN  Item(path, segs[n], "path",
             Marker \o <<CO>> \o
                 (IF n = 1 THEN <<>> ELSE <<SL>> \o JoinSlash(SubSeq(segs, 1, n - 1))))

\* the entry of the library in the list of drives
DriveListed == Item(<<"D">>, <<>>, "none", <<>>)

Answer(status, item, folders) == [status |-> status, body |-> item, remote |-> folders]

\* what the remote answers to request h when it serves it
Served(h) ==
    CASE h.op = "lookup" ->
           IF h.path = <<>> THEN Answer(200, rootItem, remote)
           ELSE IF h.path \in remote THEN Answer(200, ItemAt(h.path), remote)
           ELSE Answer(404, NoItem, remote)
      [] h.op = "create" ->
           LET p == ChildPath(h.parent, h.name)
           IN  Answer(201, ItemAt(p), remote \cup {p})
      [] h.op = "put" -> Answer(201, NoItem, remote)
      [] h.op = "chunk" -> Answer(IF h.final THEN 201 ELSE 202, NoItem, remote)
      [] h.op = "drive" -> Answer(200, DriveListed, remote)
      [] OTHER -> Answer(200, NoItem, remote)

\* every answer the remote can give to request h: it serves it or fails it; the
\* list of drives may lack the library; a create whose name is taken is served
\* (the folder there is returned) or refused with 409, as the remote resolves
\* the conflictBehavior the client passes on; a chunk may be answered with a
\* success status that _chunked_upload does not accept (204)
Answers(h) ==
    IF h.op = "any" THEN {Answer(s, NoItem, remote) : s \in Statuses}
    ELSE {Served(h)} \cup {Answer(s, NoItem, remote) : s \in RunFaults}
         \cup (IF h.op = "drive" THEN {Answer(200, NoItem, remote)} ELSE {})
         \cup (IF h.op = "create" /\ ChildPath(h.parent, h.name) \in remote
               THEN {Answer(409, NoItem, remote)} ELSE {})
         \cup (IF h.op = "chunk" THEN {Answer(204, NoItem, remote)} ELSE {})

(***************************************************************************)
(* SharePointClient._request_with_retry, client.py 154-167.                *)
(***************************************************************************)
\* rm = retry_max if retry_max is not None else self.retry_max, client.py 155-156
OrDefault(given, default) == IF given = NotGiven THEN default ELSE given[1]

\* the caller reaches self._request_with_retry(...)
CallHttp(op, path, parent, name, final, retry_max, retry_backoff, ret) ==
    /\ http' = [op |-> op, path |-> path, parent |-> parent, name |-> name, final |-> final,
                rm |-> OrDefault(retry_max, sp.retry_max),
                rb |-> OrDefault(retry_backoff, sp.retry_backoff), ret |-> ret]
    /\ attempt' = 1
    /\ reqs' = <<>>
    /\ sleeps' = <<>>
    /\ resp' = NoResp
    /\ body' = NoItem
    /\ pc' = "http"

\* the ledger after one more call of kind op
Called(h, op) == [h EXCEPT !.calls[op] = @ + 1]

\* a variant of LoopHasNext: one attempt more than retry_max
LoopHasNext_one_more(att, rm) == att <= rm + 1

\* for attempt in range(1, rm + 1): has the loop another iteration? client.py 158
LoopHasNext(att, rm) == att <= rm

\* a variant of Wait: a wait that grows linearly with the attempt
Wait_linear(rb, att) == rb * att

\* wait = rb ** attempt, client.py 161
Wait(rb, att) == Pow(rb, att)

\* resp.status_code in (429, 500, 502, 503, 504), client.py 160
IsTransient(status) == status \in Transient

\* one iteration of the loop: the request, and the sleep or the return, client.py 158-166
request_with_retry ==
    /\ pc = "http"
    /\ LoopHasNext(attempt, http.rm)
    /\ \E a \in Answers(http) :
         /\ reqs' = Append(reqs, a.status)
         /\ resp' = a.status
         /\ body' = a.body
         /\ remote' = a.remote
         /\ hist' = [hist EXCEPT !.sent = TRUE,
                                 !.created = IF a.remote # remote
                                             THEN Append(@, ChildPath(http.parent, http.name))
                                             ELSE @]
         /\ up' = IF http.op \in UploadOps THEN [up EXCEPT !.wire[http.op] = @ + 1] ELSE up
         /\ IF IsTransient(a.status)
            THEN /\ sleeps' = Append(sleeps, Wait(http.rb, attempt))
                 /\ attempt' = attempt + 1
                 /\ pc' = "http"
                 /\ outcome' = outcome
            ELSE /\ sleeps' = sleeps
                 /\ attempt' = attempt
                 /\ pc' = http.ret
                 /\ outcome' = IF http.ret = "returned" THEN "returned" ELSE outcome
    /\ UNCHANGED <<sp, args, local, rootItem, http, connRet, efp, walk, pathArg, pathRes>>

\* the loop is over: return resp  # last attempt, client.py 167
\* (resp is unbound when the loop body never ran: UnboundLocalError)
request_with_retry_last ==
    /\ pc = "http"
    /\ ~LoopHasNext(attempt, http.rm)
    /\ IF resp = NoResp
       THEN pc' = "end" /\ outcome' = "error"
       ELSE pc' = http.ret /\ outcome' = IF http.ret = "returned" THEN "returned" ELSE outcome
    /\ UNCHANGED <<sp, args, local, remote, rootItem, http, attempt, reqs, sleeps, resp, body,
                   connRet, efp, walk, up, hist, pathArg, pathRes>>

(***************************************************************************)
(* _request_with_retry on its own: any retry_max and backoff base the      *)
(* constructor or the CLI accept, any sequence of statuses.                *)
(***************************************************************************)
InitRetry ==
    /\ pc = "http"
    /\ outcome = "running"
    /\ sp = NewClient(5, 2)
    /\ args = NoArgs
    /\ local = NoLocal
    /\ remote = {}
    /\ rootItem = NoItem
    /\ \E rm \in (-1)..MaxRetry, rb \in 1..MaxBackoff :
         http = [NoHttp EXCEPT !.rm = rm, !.rb = rb, !.ret = "returned"]
    /\ attempt = 1
    /\ reqs = <<>>
    /\ sleeps = <<>>
    /\ resp = NoResp
    /\ body = NoItem
    /\ connRet = "end"
    /\ efp = NoEfp
    /\ walk = NoWalk
    /\ up = NoUp
    /\ hist = NoHist
    /\ pathArg = NoItem
    /\ pathRes = <<>>

NextRetry == request_with_retry \/ request_with_retry_last

SpecRetry == InitRetry /\ [][NextRetry]_vars


(***************************************************************************)
(* SharePointClient.ensure_connected, client.py 39-46, with _get_token     *)
(* (179-190), _get_site_id (192-202) and _get_drive_id (204-217).          *)
(***************************************************************************)
\* raise: nothing in client.py or cli.py catches, the run ends
Raise == pc' = "end" /\ outcome' = "error"

\* return to the caller of a top-level call, or into the caller's next statement
Return(to) ==
    /\ pc' = to
    /\ outcome' = IF to = "returned" THEN "returned" ELSE outcome

\* _request_with_retry has returned and its response has been read
Forget ==
    /\ http' = NoHttp
    /\ attempt' = 1
    /\ reqs' = <<>>
    /\ sleeps' = <<>>
    /\ resp' = NoResp
    /\ body' = NoItem

\* a variant of Failed: no response makes the caller raise
Failed_never(status) == FALSE

\* if not resp.ok: raise RuntimeError(...), client.py 197, 208, 229, 242, 268, 291
Failed(status) == ~RespOk(status)

\* lines 41-46 up to the first request: the token, then the site id or the drive id
ensure_connected ==
    /\ pc = "ensure_connected"
    /\ \E granted \in BOOLEAN :
         LET need == sp.token = None
             sp1  == IF need /\ granted THEN [sp EXCEPT !.token = "tok"] ELSE sp
             h1   == IF need THEN [hist EXCEPT !.tokens = @ + 1] ELSE hist
         IN  IF need /\ ~granted
             THEN /\ Raise
                  /\ hist' = h1
                  /\ UNCHANGED <<sp, transportVars>>
             ELSE /\ sp' = sp1
                  /\ IF sp1.site_id = None
                     THEN /\ CallHttp("site", <<>>, <<>>, <<>>, FALSE, NotGiven, NotGiven, "site_ret")
                          /\ hist' = Called(h1, "site")
                          /\ outcome' = outcome
                     ELSE IF sp1.drive_id = None
                     THEN /\ CallHttp("drive", <<>>, <<>>, <<>>, FALSE, NotGiven, NotGiven, "drive_ret")
                          /\ hist' = Called(h1, "drive")
                          /\ outcome' = outcome
                     ELSE /\ Return(connRet)
                          /\ hist' = h1
                          /\ UNCHANGED transportVars
    /\ UNCHANGED <<args, local, remote, rootItem, connRet, efp, walk, up, pathArg, pathRes>>

\* a variant of get_site_id: a failed site lookup throws the token away
get_site_id_invalidating ==
    /\ pc = "site_ret"
    /\ IF Failed(resp)
       THEN /\ Raise
            /\ sp' = [sp EXCEPT !.token = None]
            /\ UNCHANGED <<hist, transportVars>>
       ELSE /\ sp' = [sp EXCEPT !.site_id = "site"]
            /\ IF sp.drive_id = None
               THEN /\ CallHttp("drive", <<>>, <<>>, <<>>, FALSE, NotGiven, NotGiven, "drive_ret")
                    /\ hist' = Called(hist, "drive")
                    /\ outcome' = outcome
               ELSE /\ Return(connRet)
                    /\ Forget
                    /\ hist' = hist
    /\ UNCHANGED <<args, local, remote, rootItem, connRet, efp, walk, up, pathArg, pathRes>>

\* _get_site_id after its request, then lines 45-46
get_site_id ==
    /\ pc = "site_ret"
    /\ IF Failed(resp)
       THEN /\ Raise
            /\ UNCHANGED <<sp, hist, transportVars>>
       ELSE /\ sp' = [sp EXCEPT !.site_id = "site"]
            /\ IF sp.drive_id = None
               THEN /\ CallHttp("drive", <<>>, <<>>, <<>>, FALSE, NotGiven, NotGiven, "drive_ret")
                    /\ hist' = Called(hist, "drive")
                    /\ outcome' = outcome
               ELSE /\ Return(connRet)
                    /\ Forget
                    /\ hist' = hist
    /\ UNCHANGED <<args, local, remote, rootItem, connRet, efp, walk, up, pathArg, pathRes>>

\* _get_drive_id after its request; ensure_connected returns
get_drive_id ==
    /\ pc = "drive_ret"
    /\ IF Failed(resp) \/ body = NoItem
       THEN Raise /\ UNCHANGED <<sp, transportVars>>
       ELSE Return(connRet) /\ sp' = [sp EXCEPT !.drive_id = "drive"] /\ Forget
    /\ UNCHANGED <<args, local, remote, rootItem, connRet, efp, walk, up, hist,
                   pathArg, pathRes>>

(***************************************************************************)
(* SharePointClient.ensure_folder_path, client.py 53-80, with              *)
(* _get_item_by_path (219-231) and _create_folder (233-244).               *)
(***************************************************************************)
\* a variant of CallEnsureFolderPath: the call returns at once, nothing ensured
CallEnsureFolderPath_skipped(folder_path, caller) ==
    /\ efp' = [NoEfp EXCEPT !.folder_path = folder_path, !.caller = caller]
    /\ connRet' = connRet
    /\ pc' = caller

\* a caller reaches sp.ensure_folder_path(folder_path, ...): line 58
CallEnsureFolderPath(folder_path, caller) ==
    /\ efp' = [folder_path |-> folder_path, parts |-> <<>>, current |-> NoItem,
               caller |-> caller]
    /\ connRet' = "efp_start"
    /\ pc' = "ensure_connected"

\* _get_item_by_path up to its request, client.py 220-226
GetItemByPath(path_in_drive, ret) ==
    /\ CallHttp("lookup", Strip(path_in_drive), <<>>, <<>>, FALSE, NotGiven, NotGiven, ret)
    /\ hist' = [Called(hist, "lookup") EXCEPT !.lookups = Append(@, path_in_drive)]

\* a variant of NotFound: every error response reads as "no such item"
NotFound_any_error(status) == status >= 400

\* if resp.status_code == 404: return None, client.py 227
NotFound(status) == status = 404

\* candidate_path, client.py 69-73
CandidatePath(current, part) ==
    IF current.pref # "none"
    THEN get_server_relative_path(current) \o <<SL>> \o part
    ELSE part

\* lines 59-60: the lookup of the drive root
ensure_folder_path ==
    /\ pc = "efp_start"
    /\ GetItemByPath(<<>>, "efp_root")
    /\ efp' = [efp EXCEPT !.folder_path = Strip(@)]
    /\ UNCHANGED <<outcome, sp, args, local, remote, rootItem, connRet, walk, up,
                   pathArg, pathRes>>

\* lines 61-67, after _get_item_by_path("") has its response
ensure_folder_path_root ==
    /\ pc = "efp_root"
    /\ IF NotFound(resp) \/ Failed(resp)
       THEN Raise /\ UNCHANGED <<efp, transportVars>>
       ELSE IF efp.folder_path = <<>>
       THEN Return(efp.caller) /\ efp' = [efp EXCEPT !.current = body] /\ Forget
       ELSE /\ pc' = "efp_loop"
            /\ outcome' = outcome
            /\ efp' = [efp EXCEPT !.current = body, !.parts = SplitSlash(efp.folder_path)]
            /\ Forget
    /\ UNCHANGED <<sp, args, local, remote, rootItem, connRet, walk, up, hist,
                   pathArg, pathRes>>

\* lines 68-74 and 80: the next part's lookup, or the return of current
ensure_folder_path_part ==
    /\ pc = "efp_loop"
    /\ IF efp.parts = <<>>
       THEN /\ Return(efp.caller)
            /\ UNCHANGED <<hist, transportVars>>
       ELSE /\ GetItemByPath(CandidatePath(efp.current, Head(efp.parts)), "efp_lookup")
            /\ outcome' = outcome
    /\ UNCHANGED <<sp, args, local, remote, rootItem, connRet, efp, walk, up, pathArg, pathRes>>

\* lines 75-79, after _get_item_by_path(candidate_path) has its response
ensure_folder_path_existing ==
    /\ pc = "efp_lookup"
    /\ IF NotFound(resp)
       THEN /\ CallHttp("create", <<>>, efp.current.id, Head(efp.parts), FALSE, NotGiven,
                        NotGiven,
                        "efp_created")
            /\ hist' = [Called(hist, "create") EXCEPT
                           !.creates = Append(@, ChildPath(efp.current.id, Head(efp.parts)))]
            /\ UNCHANGED <<outcome, efp>>
       ELSE IF Failed(resp)
       THEN /\ Raise
            /\ UNCHANGED <<efp, hist, transportVars>>
       ELSE /\ pc' = "efp_loop"
            /\ efp' = [efp EXCEPT !.current = body, !.parts = Tail(@)]
            /\ Forget
            /\ UNCHANGED <<outcome, hist>>
    /\ UNCHANGED <<sp, args, local, remote, rootItem, connRet, walk, up, pathArg, pathRes>>

\* _create_folder after its request (242-244), then line 77
ensure_folder_path_created ==
    /\ pc = "efp_created"
    /\ IF Failed(resp)
       THEN Raise /\ UNCHANGED <<efp, transportVars>>
       ELSE /\ pc' = "efp_loop"
            /\ outcome' = outcome
            /\ efp' = [efp EXCEPT !.current = body, !.parts = Tail(@)]
            /\ Forget
    /\ UNCHANGED <<sp, args, local, remote, rootItem, connRet, walk, up, hist,
                   pathArg, pathRes>>


(***************************************************************************)
(* SharePointClient.upload_file, client.py 101-150, with _small_upload     *)
(* (246-271), _create_upload_session (273-295), _chunked_upload (297-342). *)
(***************************************************************************)
\* a caller reaches sp.upload_file(local_file_path, dest_folder_path, ...): line 115.
\* size is what os.path.getsize will report, content the bytes the file will yield
CallUploadFile(name, size, content, dest_folder_path, caller) ==
    /\ up' = [NoUp EXCEPT !.size = size, !.content = content, !.name = name,
                          !.dest = dest_folder_path, !.caller = caller]
    /\ connRet' = "uf_body"
    /\ pc' = "ensure_connected"

\* upload_file returns: its locals are gone, unless it was the top-level call
ReturnFromUpload ==
    /\ Return(up.caller)
    /\ up' = IF up.caller = "returned" THEN up ELSE NoUp

\* a variant of IsSmall: a file of exactly the threshold is sent in chunks
IsSmall_exclusive(size, small_upload_max) == size < small_upload_max

\* if size <= small_upload_max, client.py 126
IsSmall(size, small_upload_max) == size <= small_upload_max

\* a variant of ReadLen: each read takes one byte more than chunk_size
ReadLen_one_more(chunk_size, left) ==
    IF chunk_size < 0 \/ chunk_size + 1 > left THEN left ELSE chunk_size + 1

\* len(f.read(chunk_size)) with `left` bytes left in the file: all of them for a
\* negative chunk_size, none for 0; client.py 313
ReadLen(chunk_size, left) ==
    IF chunk_size < 0 \/ chunk_size > left THEN left ELSE chunk_size

\* a variant of ChunkFailed: a chunk fails only when the response is not ok
ChunkFailed_unless_ok(status) == ~RespOk(status)

\* if resp.status_code not in (200, 201, 202), client.py 330
ChunkFailed(status) == status \notin ChunkAccepted

\* lines 117-150 up to the first request
upload_file ==
    /\ pc = "uf_body"
    /\ LET dest_path_with_name == Strip(Strip(up.dest) \o <<SL>> \o up.name)
       IN  IF args.dry_run
           THEN /\ ReturnFromUpload
                /\ UNCHANGED <<hist, transportVars>>
           ELSE IF IsSmall(up.size, args.small_upload_max)
           THEN /\ CallHttp("put", dest_path_with_name, <<>>, <<>>, FALSE,
                            args.retry_max, args.retry_backoff, "uf_small")
                /\ hist' = Called(hist, "put")
                /\ up' = [up EXCEPT !.calls["put"] = @ + 1]
                /\ outcome' = outcome
           ELSE /\ CallHttp("session", dest_path_with_name, <<>>, <<>>, FALSE,
                            args.retry_max, args.retry_backoff, "uf_session")
                /\ hist' = Called(hist, "session")
                /\ up' = [up EXCEPT !.calls["session"] = @ + 1]
                /\ outcome' = outcome
    /\ UNCHANGED <<sp, args, local, remote, rootItem, connRet, efp, walk, pathArg, pathRes>>

\* _small_upload after its request, client.py 268-271
small_upload ==
    /\ pc = "uf_small"
    /\ IF Failed(resp)
       THEN Raise /\ UNCHANGED <<up, hist, transportVars>>
       ELSE /\ ReturnFromUpload
            /\ hist' = [hist EXCEPT !.uploads = Append(@, http.path)]
            /\ Forget
    /\ UNCHANGED <<sp, args, local, remote, rootItem, connRet, efp, walk, pathArg, pathRes>>

\* _create_upload_session after its request (291-295), then lines 306-311
create_upload_session ==
    /\ pc = "uf_session"
    /\ IF Failed(resp)
       THEN Raise /\ UNCHANGED <<up, transportVars>>
       ELSE /\ pc' = "uf_chunk"
            /\ outcome' = outcome
            /\ up' = [up EXCEPT !.bytes_sent = 0, !.chunk_index = 0, !.fpos = 0]
            /\ Forget
    /\ UNCHANGED <<sp, args, local, remote, rootItem, connRet, efp, walk, hist,
                   pathArg, pathRes>>

\* _chunked_upload, lines 312-329: the loop test, the read, the chunk's request
chunked_upload ==
    /\ pc = "uf_chunk"
    /\ LET len   == ReadLen(args.chunk_size, up.content - up.fpos)
           start == up.bytes_sent
           end   == up.bytes_sent + len - 1
       IN  IF up.bytes_sent < up.size /\ len # 0
           THEN /\ CallHttp("chunk", <<>>, <<>>, <<>>, end = up.size - 1,
                            Given(OrDefault(args.retry_max, sp.retry_max)),
                            Given(OrDefault(args.retry_backoff, sp.retry_backoff)),
                            "uf_chunk_ret")
                /\ hist' = Called(hist, "chunk")
                /\ up' = [up EXCEPT !.fpos = @ + len, !.chunk_len = len,
                                    !.ranges = Append(@, <<start, end>>),
                                    !.calls["chunk"] = @ + 1]
                /\ outcome' = outcome
           ELSE /\ ReturnFromUpload
                /\ hist' = [hist EXCEPT !.uploads =
                                Append(@, Strip(Strip(up.dest) \o <<SL>> \o up.name))]
                /\ UNCHANGED transportVars
    /\ UNCHANGED <<sp, args, local, remote, rootItem, connRet, efp, walk, pathArg, pathRes>>

\* _chunked_upload, lines 330-336, after the chunk's request
chunked_upload_sent ==
    /\ pc = "uf_chunk_ret"
    /\ IF ChunkFailed(resp)
       THEN Raise /\ UNCHANGED <<up, transportVars>>
       ELSE /\ pc' = "uf_chunk"
            /\ outcome' = outcome
            /\ up' = [up EXCEPT !.bytes_sent = @ + up.chunk_len, !.chunk_index = @ + 1]
            /\ Forget
    /\ UNCHANGED <<sp, args, local, remote, rootItem, connRet, efp, walk, hist,
                   pathArg, pathRes>>


(***************************************************************************)
(* The local tree: iter_local (client.py 346-350), count_files (353-357).  *)
(* A directory is the sequence of the names from the local root to it.     *)
(***************************************************************************)
Alphabet == <<"a", "b", "f", "t">>

CharOrd(c) == CHOOSE i \in 1..Len(Alphabet) : Alphabet[i] = c

\* a < b for Python strings
RECURSIVE NameLess(_, _)
NameLess(a, b) ==
    IF a = <<>> THEN b # <<>>
    ELSE IF b = <<>> THEN FALSE
    ELSE IF a[1] = b[1] THEN NameLess(Tail(a), Tail(b))
    ELSE CharOrd(a[1]) < CharOrd(b[1])

Children(dirs, d) ==
    {c \in dirs : Len(c) = Len(d) + 1 /\ SubSeq(c, 1, Len(d)) = d}

\* dirnames.sort(): the directories of S by their names
RECURSIVE SortedDirs(_)
SortedDirs(S) ==
    IF S = {} THEN <<>>
    ELSE LET m == CHOOSE x \in S : \A y \in S \ {x} : NameLess(x[Len(x)], y[Len(y)])
         IN  <<m>> \o SortedDirs(S \ {m})

\* os.walk, top-down, into the sorted dirnames
RECURSIVE WalkFrom(_, _)
RECURSIVE WalkEach(_, _)
WalkFrom(dirs, d) == <<d>> \o WalkEach(dirs, SortedDirs(Children(dirs, d)))
WalkEach(dirs, ds) ==
    IF ds = <<>> THEN <<>> ELSE WalkFrom(dirs, Head(ds)) \o WalkEach(dirs, Tail(ds))

iter_local(tree) == WalkFrom(tree.dirs, <<>>)

RECURSIVE SumFiles(_, _)
SumFiles(tree, ds) ==
    IF ds = {} THEN 0
    ELSE LET d == CHOOSE x \in ds : TRUE
         IN  tree.nfiles[d] + SumFiles(tree, ds \ {d})

count_files(tree) == SumFiles(tree, tree.dirs \cup {<<>>})

\* the k-th of the sorted filenames of a directory
Digit == <<"1", "2", "3", "4", "5", "6", "7", "8", "9">>
FileName(k) == <<"f", Digit[k]>>

\* os.path.relpath(dirpath, local_folder)
RelPath(d) == IF d = <<>> THEN <<".">> ELSE JoinSlash(d)

(***************************************************************************)
(* upload_cmd, cli.py 104-171.                                             *)
(***************************************************************************)
\* line 130: sp.ensure_folder_path(target_folder, conflict_behavior)
upload_cmd ==
    /\ pc = "cmd"
    /\ CallEnsureFolderPath(args.target_folder, "cmd_target")
    /\ hist' = [hist EXCEPT !.efpCalls = @ + 1]
    /\ UNCHANGED <<outcome, sp, args, local, remote, rootItem, transportVars, walk, up,
                   pathArg, pathRes>>

\* a variant of IsEmptyTree: the walk is entered whatever the count
IsEmptyTree_never(total_files) == FALSE

\* if total_files == 0, cli.py 138
IsEmptyTree(total_files) == total_files = 0

\* lines 131-142: target_path, the count of the files, "Nothing to upload"
upload_cmd_count ==
    /\ pc = "cmd_target"
    /\ IF IsEmptyTree(count_files(local))
       THEN /\ pc' = "end"
            /\ outcome' = "nothing"
            /\ walk' = [walk EXCEPT !.target_path = get_server_relative_path(efp.current)]
       ELSE /\ pc' = "cmd_dir"
            /\ outcome' = outcome
            /\ walk' = [walk EXCEPT !.target_path = get_server_relative_path(efp.current),
                                    !.todo = iter_local(local)]
    /\ efp' = NoEfp
    /\ UNCHANGED <<sp, args, local, remote, rootItem, transportVars, connRet, up, hist,
                   pathArg, pathRes>>

\* a variant of FolderPathInDrive: without the relative directory, every
\* directory's files go to the target folder
FolderPathInDrive_flat(target_path, d) == target_path

\* folder_path_in_drive, cli.py 144-149
FolderPathInDrive(target_path, d) ==
    LET rel   == RelPath(d)
        rel_dir == IF rel = <<".">> THEN <<>> ELSE rel
    IN  IF rel_dir # <<>> THEN Strip(target_path \o <<SL>> \o rel_dir) ELSE target_path

\* lines 143-152 for the next directory, or line 171: "Done."
upload_cmd_dir ==
    /\ pc = "cmd_dir"
    /\ IF walk.todo = <<>>
       THEN /\ pc' = "end"
            /\ outcome' = "done"
            /\ UNCHANGED <<walk, efp, connRet, hist>>
       ELSE LET d == Head(walk.todo)
                folder_path_in_drive == FolderPathInDrive(walk.target_path, d)
            IN  /\ CallEnsureFolderPath(folder_path_in_drive, "cmd_files")
                /\ walk' = [walk EXCEPT !.todo = Tail(@), !.dir = d,
                                        !.folder_path = folder_path_in_drive,
                                        !.files = local.nfiles[d]]
                /\ hist' = [hist EXCEPT !.efpCalls = @ + 1]
                /\ outcome' = outcome
    /\ UNCHANGED <<sp, args, local, remote, rootItem, transportVars, up, pathArg, pathRes>>

\* lines 154-169 for the next file of the directory
upload_cmd_file ==
    /\ pc = "cmd_files"
    /\ IF walk.files = 0
       THEN /\ pc' = "cmd_dir"
            /\ UNCHANGED <<walk, up, connRet, hist>>
       ELSE \E f \in local.files :
              /\ CallUploadFile(FileName(local.nfiles[walk.dir] - walk.files + 1),
                                f.size, f.content, walk.folder_path, "cmd_files")
              /\ walk' = [walk EXCEPT !.files = @ - 1]
              /\ hist' = [hist EXCEPT !.ufCalls = @ + 1,
                                      !.echoed = IF args.dry_run THEN @ + 1 ELSE @]
    /\ efp' = NoEfp
    /\ UNCHANGED <<outcome, sp, args, local, remote, rootItem, transportVars,
                   pathArg, pathRes>>


(***************************************************************************)
(* A run of upload_cmd, and a second run against what the first one left.  *)
(***************************************************************************)
\* the user runs the command again: a new process and client, the same remote drive
run_again ==
    /\ pc = "end"
    /\ outcome = "done"
    /\ hist.run = 1
    /\ pc' = "cmd"
    /\ outcome' = "running"
    /\ sp' = NewClient(sp.retry_max, sp.retry_backoff)
    /\ hist' = [NoHist EXCEPT !.run = hist.run + 1]
    /\ walk' = NoWalk
    /\ efp' = NoEfp
    /\ up' = NoUp
    /\ connRet' = "end"
    /\ Forget
    /\ UNCHANGED <<args, local, remote, rootItem, pathArg, pathRes>>

\* the local directories drawn: prefix-closed sets of these
DirUniverse == {<< <<"a">> >>, << <<"a">>, <<"b">> >>}

PrefixClosed(dirs) ==
    \A d \in dirs : Len(d) > 1 => SubSeq(d, 1, Len(d) - 1) \in dirs

LocalTrees(files) ==
    UNION {{[dirs |-> dirs, nfiles |-> nf, files |-> files] :
               nf \in [dirs \cup {<<>>} -> 0..MaxFiles]} :
           dirs \in {S \in SUBSET DirUniverse : PrefixClosed(S)}}

\* the driveItem of the drive root: without a name and a parentReference, as the
\* `else part` of client.py 69-73 expects it, or as Microsoft Graph returns it, named
\* "root" with a parentReference that has no path
RootItems == {Item(<<>>, <<>>, "none", <<>>),
              Item(<<>>, <<"r", "o", "o", "t">>, "nopath", <<>>)}

TargetFolders == {<<>>, <<"t">>}

\* --conflict-behavior: the client passes the value on and never reads it
ConflictBehaviors == {"replace"}

\* the files of a run: one byte goes in one PUT, two bytes go in two chunks
RunFiles == {[size |-> 1, content |-> 1], [size |-> 2, content |-> 2]}

Init ==
    /\ pc = "cmd"
    /\ outcome = "running"
    /\ sp \in {NewClient(rm, 2) : rm \in 1..MaxRunRetry}
    /\ args \in [target_folder : TargetFolders, conflict_behavior : ConflictBehaviors,
                 small_upload_max : {1}, chunk_size : {1},
                 retry_max : {Given(rm) : rm \in 1..MaxRunRetry},
                 retry_backoff : {Given(2)}, dry_run : BOOLEAN]
    /\ local \in LocalTrees(RunFiles)
    /\ remote = {}
    /\ rootItem \in RootItems
    /\ http = NoHttp
    /\ attempt = 1
    /\ reqs = <<>>
    /\ sleeps = <<>>
    /\ resp = NoResp
    /\ body = NoItem
    /\ connRet = "end"
    /\ efp = NoEfp
    /\ walk = NoWalk
    /\ up = NoUp
    /\ hist = NoHist
    /\ pathArg = NoItem
    /\ pathRes = <<>>

Next ==
    \/ upload_cmd
    \/ upload_cmd_count
    \/ upload_cmd_dir
    \/ upload_cmd_file
    \/ ensure_connected
    \/ get_site_id
    \/ get_drive_id
    \/ ensure_folder_path
    \/ ensure_folder_path_root
    \/ ensure_folder_path_part
    \/ ensure_folder_path_existing
    \/ ensure_folder_path_created
    \/ upload_file
    \/ small_upload
    \/ create_upload_session
    \/ chunked_upload
    \/ chunked_upload_sent
    \/ request_with_retry
    \/ request_with_retry_last
    \/ run_again

Spec == Init /\ [][Next]_vars


(***************************************************************************)
(* upload_file on its own: any size, content length, threshold, chunk size *)
(* and retry_max, on a client that is connected or not yet.                *)
(***************************************************************************)
Connected(client) ==
    [client EXCEPT !.token = "tok", !.site_id = "site", !.drive_id = "drive"]

InitUpload ==
    /\ pc = "ensure_connected"
    /\ outcome = "running"
    /\ \E rm \in 1..MaxRunRetry :
         sp \in {NewClient(rm, 2), Connected(NewClient(rm, 2))}
    /\ args \in [target_folder : {<<>>}, conflict_behavior : ConflictBehaviors,
                 small_upload_max : 0..MaxSmall, chunk_size : (-1)..MaxChunk,
                 retry_max : {NotGiven} \cup {Given(rm) : rm \in 0..MaxRunRetry},
                 retry_backoff : {NotGiven}, dry_run : BOOLEAN]
    /\ local = NoLocal
    /\ remote = {}
    /\ rootItem \in RootItems
    /\ http = NoHttp
    /\ attempt = 1
    /\ reqs = <<>>
    /\ sleeps = <<>>
    /\ resp = NoResp
    /\ body = NoItem
    /\ connRet = "uf_body"
    /\ efp = NoEfp
    /\ walk = NoWalk
    /\ \E size \in 0..MaxSize :
         \E content \in 0..size :
           up = [NoUp EXCEPT !.size = size, !.content = content, !.name = FileName(1),
                             !.dest = <<"t">>, !.caller = "returned"]
    /\ hist = [NoHist EXCEPT !.ufCalls = 1]
    /\ pathArg = NoItem
    /\ pathRes = <<>>

NextUpload ==
    \/ ensure_connected
    \/ get_site_id
    \/ get_drive_id
    \/ upload_file
    \/ small_upload
    \/ create_upload_session
    \/ chunked_upload
    \/ chunked_upload_sent
    \/ request_with_retry
    \/ request_with_retry_last

SpecUpload == InitUpload /\ [][NextUpload]_vars

\* upload_file runs on: the interpreter executes the next statement, the remote
\* answers every request
SpecUploadFair == SpecUpload /\ WF_vars(NextUpload)

(***************************************************************************)
(* get_server_relative_path on its own: any item.                          *)
(***************************************************************************)
PathChars == {SL, CO, "a"}
NameChars == {SL, "n"}

InitPath ==
    /\ pc = "path"
    /\ outcome = "running"
    /\ sp = NewClient(5, 2)
    /\ args = NoArgs
    /\ local = NoLocal
    /\ remote = {}
    /\ rootItem = NoItem
    /\ http = NoHttp
    /\ attempt = 1
    /\ reqs = <<>>
    /\ sleeps = <<>>
    /\ resp = NoResp
    /\ body = NoItem
    /\ connRet = "end"
    /\ efp = NoEfp
    /\ walk = NoWalk
    /\ up = NoUp
    /\ hist = NoHist
    /\ \E name \in StringsUpTo(NameChars, MaxNameLen) :
         \/ \E pref \in {"none", "nopath"} : pathArg = Item(<<>>, name, pref, <<>>)
         \/ \E ppath \in StringsUpTo(PathChars, MaxPathLen) :
              pathArg = Item(<<>>, name, "path", ppath)
    /\ pathRes = <<>>

\* a caller evaluates sp.get_server_relative_path(item_json)
call_get_server_relative_path ==
    /\ pc = "path"
    /\ pathRes' = get_server_relative_path(pathArg)
    /\ pc' = "returned"
    /\ outcome' = "returned"
    /\ UNCHANGED <<sp, args, local, remote, rootItem, transportVars, connRet, efp, walk,
                   up, hist, pathArg>>

NextPath == call_get_server_relative_path

SpecPath == InitPath /\ [][NextPath]_vars


(***************************************************************************)
(* ensure_connected called again and again on one client, by a caller that *)
(* goes on after a failure (ensure_folder_path, upload_file and drive_id    *)
(* all start with it, client.py 50, 58, 115).                              *)
(***************************************************************************)
InitConnect ==
    /\ pc = "ensure_connected"
    /\ outcome = "running"
    /\ sp \in {NewClient(rm, 2) : rm \in 1..MaxRunRetry}
    /\ args = NoArgs
    /\ local = NoLocal
    /\ remote = {}
    /\ rootItem = NoItem
    /\ http = NoHttp
    /\ attempt = 1
    /\ reqs = <<>>
    /\ sleeps = <<>>
    /\ resp = NoResp
    /\ body = NoItem
    /\ connRet = "returned"
    /\ efp = NoEfp
    /\ walk = NoWalk
    /\ up = NoUp
    /\ hist = NoHist
    /\ pathArg = NoItem
    /\ pathRes = <<>>

\* the next call on the same client, after the last one returned or raised
connect_again ==
    /\ pc \in {"end", "returned"}
    /\ outcome \in {"error", "returned"}
    /\ hist.tokens + hist.calls["site"] + hist.calls["drive"] < MaxConnects
    /\ pc' = "ensure_connected"
    /\ outcome' = "running"
    /\ Forget
    /\ UNCHANGED <<sp, args, local, remote, rootItem, connRet, efp, walk, up, hist,
                   pathArg, pathRes>>

NextConnect ==
    \/ ensure_connected
    \/ get_site_id
    \/ get_drive_id
    \/ request_with_retry
    \/ request_with_retry_last
    \/ connect_again

SpecConnect == InitConnect /\ [][NextConnect]_vars

(***************************************************************************)
(* The claims.                                                             *)
(***************************************************************************)
AllTransient(statuses) == \A i \in 1..Len(statuses) : statuses[i] \in Transient

\* the places where a caller has the response of its _request_with_retry call
RetLabels == {"site_ret", "drive_ret", "efp_root", "efp_lookup", "efp_created",
              "uf_small", "uf_session", "uf_chunk_ret"}

\* C1 (SpecRetry): for retry_max >= 1, _request_with_retry goes on only while
\* every response so far is transient, and when it returns a non-transient
\* response after k transient ones (k < retry_max) it has issued exactly k+1
\* requests, returns that last response, has not raised, and has slept exactly
\* k times, backoff^1, ..., backoff^k in that order; it gives up on transient
\* responses only after retry_max requests.
C1_RetryUntilNonTransient ==
    http.rm >= 1 =>
        /\ outcome # "error"
        /\ pc = "http" => AllTransient(reqs) /\ Len(reqs) <= http.rm
        /\ pc = "returned" =>
             LET k == Len(reqs) - 1
             IN  /\ k >= 0
                 /\ AllTransient(SubSeq(reqs, 1, k))
                 /\ resp = reqs[k + 1]
                 /\ resp \in Transient => k + 1 = http.rm
                 /\ resp \notin Transient =>
                      /\ k < http.rm
                      /\ Len(sleeps) = k
                      /\ \A i \in 1..k : sleeps[i] = http.rb ^ i

\* C1 witness: [503, 503, 200] with base 3 ends after 3 requests and sleeps of 3 and 9
C1_Witness ==
    /\ pc = "returned"
    /\ reqs = <<503, 503, 200>>
    /\ resp = 200
    /\ sleeps = <<3, 9>>

\* C2 (Spec): a call whose responses are all transient ends only after exactly
\* retry_max requests and hands its caller the last transient response without
\* raising; the caller (ensure_connected, the Resolver or the Transfer Engine)
\* then raises: the run ends in error at once, no folder is created for it, no
\* identifier is stored, no upload is recorded and nothing more is sent.
C2_ExhaustedIsHardFailure ==
    [][(pc \in RetLabels /\ resp \in Transient) =>
          /\ Len(reqs) = http.rm
          /\ AllTransient(reqs)
          /\ resp = reqs[Len(reqs)]
          /\ outcome = "running"
          /\ outcome' = "error"
          /\ pc' = "end"
          /\ hist' = hist
          /\ sp' = sp
          /\ remote' = remote
          /\ reqs' = reqs]_vars

\* C2 witness: a lookup answered 503 on each of its two attempts ended the run
C2_Witness ==
    /\ outcome = "error"
    /\ http.op = "lookup"
    /\ http.rm = 2
    /\ reqs = <<503, 503>>
    /\ resp = 503
    /\ hist.creates = <<>>

CeilDiv(a, b) == (a + b - 1) \div b

\* the file holds exactly as many bytes as getsize reported, and is sent in chunks
WholeFileChunked ==
    /\ up.calls["session"] = 1
    /\ up.size >= 1
    /\ up.content = up.size
    /\ args.chunk_size >= 1

\* C3 (SpecUpload): in a chunked upload of a file of S bytes with chunk size C
\* (S >= 1, C >= 1, the file holding S bytes) the byte ranges of the chunk PUTs
\* are contiguous and do not overlap: the first starts at 0, each next one
\* starts right after the previous one's end, every range but the last is C
\* bytes long, no range passes S-1; and when upload_file returns normally the
\* ranges cover 0..S-1 with exactly ceil(S/C) chunk PUT calls.
C3_ChunksContiguous ==
    WholeFileChunked =>
        LET n == Len(up.ranges)
        IN  /\ \A i \in 1..n :
                 /\ up.ranges[i][1] = (i - 1) * args.chunk_size
                 /\ up.ranges[i][1] <= up.ranges[i][2]
                 /\ up.ranges[i][2] <= up.size - 1
                 /\ i < n => up.ranges[i + 1][1] = up.ranges[i][2] + 1
                 /\ i < n => up.ranges[i][2] - up.ranges[i][1] + 1 = args.chunk_size
            /\ up.calls["chunk"] = n
            /\ pc = "returned" =>
                 /\ n = CeilDiv(up.size, args.chunk_size)
                 /\ up.ranges[1][1] = 0
                 /\ up.ranges[n][2] = up.size - 1

\* C3 witness: 3 bytes in chunks of 2 went out as bytes 0-1 and 2-2
C3_Witness ==
    /\ pc = "returned"
    /\ WholeFileChunked
    /\ up.size = 3
    /\ args.chunk_size = 2
    /\ up.ranges = << <<0, 1>>, <<2, 2>> >>

\* C4 (SpecUpload): outside dry run, a file of at most small_upload_max bytes
\* (the threshold included) gets one whole-body PUT call and neither a session
\* nor a chunk request; a larger file gets no whole-body PUT, one session
\* creation, and chunk PUTs only after the session creation has succeeded.
C4_SmallOrChunked ==
    ~args.dry_run =>
        /\ up.size <= args.small_upload_max =>
             /\ up.calls["put"] <= 1
             /\ up.wire["put"] > 0 => up.calls["put"] = 1
             /\ up.calls["session"] = 0 /\ up.wire["session"] = 0
             /\ up.calls["chunk"] = 0 /\ up.wire["chunk"] = 0
             /\ pc = "returned" => up.calls["put"] = 1 /\ up.wire["put"] >= 1
        /\ up.size > args.small_upload_max =>
             /\ up.calls["put"] = 0 /\ up.wire["put"] = 0
             /\ up.calls["session"] <= 1
             /\ up.calls["chunk"] > 0 => up.calls["session"] = 1 /\ up.wire["session"] >= 1
             /\ http.op = "session" => up.calls["chunk"] = 0 /\ up.wire["chunk"] = 0
             /\ pc = "returned" => up.calls["session"] = 1 /\ up.wire["session"] >= 1

\* C4 witness: a file of exactly small_upload_max bytes went out in one PUT
C4_Witness ==
    /\ pc = "returned"
    /\ ~args.dry_run
    /\ up.size = 1
    /\ args.small_upload_max = 1
    /\ up.calls["put"] = 1
    /\ up.wire["session"] = 0

\* C5 (Spec), as the spec states it: in dry-run mode no network call is made
\* at all: no token is acquired, no request goes out, no folder is created.
C5_DryRunSendsNothing ==
    args.dry_run =>
        /\ ~hist.sent
        /\ hist.tokens = 0
        /\ hist.creates = <<>>
        /\ remote = {}

\* the local tree holds no file at all
NoLocalFiles == \A d \in local.dirs \cup {<<>>} : local.nfiles[d] = 0

TransferCalls == hist.calls["put"] + hist.calls["session"] + hist.calls["chunk"]

NoDuplicates(seq) == \A i, j \in 1..Len(seq) : seq[i] = seq[j] => i = j

\* the path of the folder above the folder at a non-empty path
ParentPath(path) ==
    LET segs == SplitSlash(path)
    IN  JoinSlash(SubSeq(segs, 1, Len(segs) - 1))

\* C7 (Spec), as the spec states it: within one run folders are created
\* top-down (a create is asked only for a folder whose parent is the root or
\* exists remotely), no folder path is asked to be created twice, and a re-run
\* against the tree the first run mirrored asks for no folder creation at all.
C7_CreatesTopDownOnce ==
    /\ \A i \in 1..Len(hist.creates) :
         Len(SplitSlash(hist.creates[i])) > 1 => ParentPath(hist.creates[i]) \in remote
    /\ NoDuplicates(hist.creates)
    /\ hist.run = 2 => hist.calls["create"] = 0

\* the remote folder that mirrors the local root: the target folder, or without
\* one the path the client reconstructs for the drive root, which is its name
MirrorRoot == IF args.target_folder # <<>> THEN args.target_folder ELSE rootItem.name

MirrorPath(d) ==
    IF d = <<>> THEN MirrorRoot
    ELSE IF MirrorRoot = <<>> THEN JoinSlash(d)
    ELSE MirrorRoot \o <<SL>> \o JoinSlash(d)

PathPrefixes(path) ==
    IF path = <<>> THEN {}
    ELSE LET segs == SplitSlash(path)
         IN  {JoinSlash(SubSeq(segs, 1, k)) : k \in 1..Len(segs)}

\* the local directories with a file in their subtree
HoldsFile(d) ==
    \E e \in local.dirs \cup {<<>>} :
        /\ Len(e) >= Len(d)
        /\ SubSeq(e, 1, Len(d)) = d
        /\ local.nfiles[e] > 0

RunCompleted == pc = "end" /\ outcome \in {"done", "nothing"} /\ hist.run = 1

CreatedFolders == {hist.created[i] : i \in 1..Len(hist.created)}

AllSlashes(str) == \A i \in 1..Len(str) : str[i] = SL

\* core is str without its leading and trailing slashes
IsStripped(core, str) ==
    /\ core # <<>> => core[1] # SL /\ core[Len(core)] # SL
    /\ \E i, j \in 0..Len(str) :
         /\ i + Len(core) + j = Len(str)
         /\ AllSlashes(SubSeq(str, 1, i))
         /\ SubSeq(str, i + 1, i + Len(core)) = core
         /\ AllSlashes(SubSeq(str, i + Len(core) + 1, Len(str)))

\* parent_path is '<marker>:/<rest>' with the first ":/" at i, and rest is a
\* path without a slash at either end that does not end in ':'
NestedAt(parent_path, i) ==
    /\ i + 2 <= Len(parent_path)
    /\ parent_path[i] = CO /\ parent_path[i + 1] = SL
    /\ \A k \in 1..(i - 1) : ~(parent_path[k] = CO /\ parent_path[k + 1] = SL)
    /\ parent_path[i + 2] # SL
    /\ parent_path[Len(parent_path)] \notin {SL, CO}

PathCallUntouched ==
    /\ hist = NoHist
    /\ remote = {}
    /\ reqs = <<>>
    /\ sleeps = <<>>
    /\ sp = NewClient(5, 2)

\* C9 (SpecPath), as the spec states it: for an item whose parentReference.path
\* ends in ':' get_server_relative_path returns the empty string.
C9_ColonParentGivesEmpty ==
    (pc = "returned" /\ pathArg.pref = "path" /\ pathArg.ppath # <<>>
        /\ pathArg.ppath[Len(pathArg.ppath)] = CO) =>
        pathRes = <<>>

\* C9 (SpecPath), amended: get_server_relative_path sends nothing and changes
\* no state; for an item whose parentReference.path ends in ':' it returns the
\* item's name without its leading and trailing slashes, which is the empty
\* string only for a name that is empty or all slashes; for a nested item
\* (parentReference.path '<marker>:/<p1>/.../<pk>', name n without slashes) it
\* returns 'p1/.../pk/n'.
C9_PathFromParentAndName ==
    pc = "returned" =>
        /\ PathCallUntouched
        /\ (pathArg.pref = "path" /\ pathArg.ppath # <<>>
               /\ pathArg.ppath[Len(pathArg.ppath)] = CO) =>
             /\ IsStripped(pathRes, pathArg.name)
             /\ pathRes = <<>> <=> AllSlashes(pathArg.name)
        /\ \A i \in 1..Len(pathArg.ppath) :
             (/\ pathArg.pref = "path"
              /\ NestedAt(pathArg.ppath, i)
              /\ pathArg.name # <<>>
              /\ \A k \in 1..Len(pathArg.name) : pathArg.name[k] # SL) =>
                pathRes = SubSeq(pathArg.ppath, i + 2, Len(pathArg.ppath))
                              \o <<SL>> \o pathArg.name

\* C9 witness: a folder n right under the root has the path "n", not ""
C9_Witness ==
    /\ pc = "returned"
    /\ pathArg.pref = "path"
    /\ pathArg.ppath = <<SL, "a", CO>>
    /\ pathArg.name = <<"n">>
    /\ pathRes = <<"n">>

\* a final response that the Resolver or the Transfer Engine raises on
FatalFor(op, status) ==
    CASE op = "lookup" -> status >= 400 /\ status # 404
      [] op = "chunk" -> status \notin {200, 201, 202}
      [] OTHER -> status >= 400

\* C10 (Spec): when a lookup, a folder create, a whole-file PUT, a session
\* create or a chunk PUT ends with a failing response, the run ends in error at
\* that very step, with no request, folder or upload added; and a run that has
\* ended in error takes no further step: nothing more is sent, no later file
\* is uploaded, "Done." is never reached.
C10_FatalErrorEndsRun ==
    [][/\ (/\ pc \in RetLabels
           /\ http.op \in {"lookup", "create", "put", "session", "chunk"}
           /\ FatalFor(http.op, resp)) =>
              /\ outcome' = "error"
              /\ pc' = "end"
              /\ hist' = hist
              /\ remote' = remote
              /\ reqs' = reqs
       /\ outcome = "error" => UNCHANGED vars]_vars

\* C10 witness: the PUT of the first file was refused with 400 and the run
\* stopped with a directory still to visit and nothing uploaded
C10_Witness ==
    /\ outcome = "error"
    /\ pc = "end"
    /\ http.op = "put"
    /\ resp = 400
    /\ walk.todo # <<>>
    /\ hist.uploads = <<>>

Is2xx(status) == status >= 200 /\ status <= 299

EndsInErrorUntouched ==
    /\ outcome' = "error"
    /\ pc' = "end"
    /\ hist' = hist
    /\ remote' = remote
    /\ reqs' = reqs

\* C11 (Spec): in ensure_folder_path a folder create is called only from the
\* lookup of the segment at hand, when that lookup's final response is 404 (a
\* non-transient response, so the Transport's retries are over); a 2xx lookup
\* moves on to the next segment without a create; any other final lookup
\* status, an exhausted transient one included, and any non-2xx create status
\* end the run in error at once, with no folder created and no request added.
C11_CreateOnlyAfter404 ==
    [][/\ hist'.calls["create"] > hist.calls["create"] =>
            /\ pc = "efp_lookup"
            /\ http.op = "lookup"
            /\ resp = 404
            /\ reqs # <<>> /\ reqs[Len(reqs)] = 404
            /\ http.path = Strip(hist.lookups[Len(hist.lookups)])
            /\ hist'.calls["create"] = hist.calls["create"] + 1
            /\ http'.op = "create"
            /\ http'.name = Head(efp.parts)
       /\ (pc = "efp_lookup" /\ Is2xx(resp)) =>
            /\ hist'.calls["create"] = hist.calls["create"]
            /\ pc' = "efp_loop"
            /\ efp'.parts = Tail(efp.parts)
            /\ remote' = remote
       /\ (pc = "efp_lookup" /\ ~Is2xx(resp) /\ resp # 404) => EndsInErrorUntouched
       /\ (pc = "efp_created" /\ ~Is2xx(resp)) => EndsInErrorUntouched
       /\ (outcome = "error" /\ http.op \in {"lookup", "create"}) => UNCHANGED vars]_vars

\* C11 witness: the lookup of t said 404, the create of t was refused with
\* 400, and resolution stopped with nothing created
C11_Witness ==
    /\ outcome = "error"
    /\ http.op = "create"
    /\ resp = 400
    /\ hist.creates = << <<"t">> >>
    /\ hist.calls["lookup"] = 2
    /\ remote = {}

UploadLabels == {"uf_body", "uf_small", "uf_session", "uf_chunk", "uf_chunk_ret"}

UploadRequests == up.wire["put"] + up.wire["session"] + up.wire["chunk"]

\* C12 (Spec): upload_file is called for a file only after the
\* ensure_folder_path call for its destination folder has returned: no
\* ensure is in progress, the destination is the folder just ensured and it
\* exists remotely; and only when every file before it is through (outside dry
\* run: recorded as uploaded), with no request pending.  Every upload request
\* belongs to the one file in transfer, whose folder exists, while all files
\* before it are complete.
C12_FolderEnsuredThenFilesInTurn ==
    [][/\ hist'.ufCalls > hist.ufCalls =>
            /\ pc = "cmd_files"
            /\ efp = NoEfp \/ (efp.parts = <<>> /\ efp.caller = "cmd_files"
                                 /\ efp.folder_path = Strip(walk.folder_path))
            /\ up'.dest = walk.folder_path
            /\ walk.folder_path = <<>> \/ walk.folder_path \in remote
            /\ up = NoUp
            /\ http = NoHttp
            /\ ~args.dry_run => Len(hist.uploads) = hist.ufCalls
       /\ UploadRequests' > UploadRequests =>
            /\ http.op \in UploadOps
            /\ up'.name = up.name /\ up'.dest = up.dest
            /\ up.dest = walk.folder_path
            /\ up.dest = <<>> \/ up.dest \in remote
            /\ efp = NoEfp
            /\ Len(hist.uploads) = hist.ufCalls - 1
       /\ Len(hist'.uploads) > Len(hist.uploads) =>
            /\ pc \in UploadLabels
            /\ pc' = "cmd_files"
            /\ up' = NoUp
            /\ Len(hist'.uploads) = hist.ufCalls]_vars

\* C12 witness: two files in two folders went up one after the other, in the
\* folders t and t/a ensured for them
C12_Witness ==
    /\ outcome = "done"
    /\ hist.run = 1
    /\ hist.ufCalls = 2
    /\ Len(hist.uploads) = 2
    /\ {<<"t">>, <<"t", "/", "a">>} \subseteq remote

IsSet(v) == v # None

InOrder(client) ==
    /\ IsSet(client.drive_id) => IsSet(client.site_id)
    /\ IsSet(client.site_id) => IsSet(client.token)

\* C13 (SpecConnect): over any sequence of ensure_connected calls on one
\* client, failed ones included, the token, the site id and the drive id never
\* change once set; one is asked for only while it is unset, so each is
\* acquired successfully at most once; and they are set in the order token,
\* site id, drive id: the site is looked up only with a token, the drives only
\* with a site id.
C13_WriteOnceInOrder ==
    [][/\ IsSet(sp.token) => sp'.token = sp.token
       /\ IsSet(sp.site_id) => sp'.site_id = sp.site_id
       /\ IsSet(sp.drive_id) => sp'.drive_id = sp.drive_id
       /\ hist'.tokens > hist.tokens => ~IsSet(sp.token)
       /\ hist'.calls["site"] > hist.calls["site"] => ~IsSet(sp.site_id) /\ IsSet(sp'.token)
       /\ hist'.calls["drive"] > hist.calls["drive"] =>
            ~IsSet(sp.drive_id) /\ IsSet(sp'.site_id) /\ IsSet(sp'.token)
       /\ InOrder(sp) /\ InOrder(sp')
       /\ sp'.retry_max = sp.retry_max /\ sp'.retry_backoff = sp.retry_backoff]_vars

\* C13 witness: the site lookup failed once with the token in hand; the third
\* call found everything set after one token acquisition in all
C13_Witness ==
    /\ pc = "returned"
    /\ IsSet(sp.token) /\ IsSet(sp.site_id) /\ IsSet(sp.drive_id)
    /\ hist.tokens = 1
    /\ hist.calls["site"] = 2
    /\ hist.calls["drive"] = 1

\* C14 (SpecRetry), as the spec states it: the Transport sleeps only when a
\* transient response came and attempts remain, so it never sleeps after the
\* retry_max-th attempt, and a call that exhausts its attempts has slept
\* exactly retry_max - 1 times.
C14_NoSleepAfterLastAttempt ==
    http.rm >= 1 =>
        /\ Len(sleeps) <= http.rm - 1
        /\ (pc = "returned" /\ Len(reqs) = http.rm /\ resp \in Transient) =>
              Len(sleeps) = http.rm - 1

\* C15 (SpecUpload): when the final response to a chunk PUT is not 200, 201
\* or 202, the upload ends in error at that step: bytes_sent and the chunk
\* index stay as they were, no chunk PUT is added, and nothing follows the
\* error.
C15_RefusedChunkAborts ==
    [][/\ (pc = "uf_chunk_ret" /\ resp \notin {200, 201, 202}) =>
            /\ outcome' = "error"
            /\ pc' = "end"
            /\ up'.bytes_sent = up.bytes_sent
            /\ up'.chunk_index = up.chunk_index
            /\ up'.ranges = up.ranges
            /\ up'.wire = up.wire
            /\ up'.calls = up.calls
            /\ hist'.uploads = hist.uploads
       /\ (outcome = "error" /\ http.op = "chunk") => UNCHANGED vars
       /\ (pc = "uf_chunk_ret" /\ resp \in {200, 201, 202}) =>
            up'.bytes_sent = up.bytes_sent + (up.ranges[Len(up.ranges)][2]
                                              - up.ranges[Len(up.ranges)][1] + 1)]_vars

\* C15 witness: the second chunk of three was answered 204; one byte counts as
\* sent and the third chunk never went out
C15_Witness ==
    /\ outcome = "error"
    /\ http.op = "chunk"
    /\ resp = 204
    /\ up.size = 3
    /\ args.chunk_size = 1
    /\ up.bytes_sent = 1
    /\ up.ranges = << <<0, 0>>, <<1, 1>> >>

\* the first k segments of a non-empty path, joined
PrefixOf(path, k) == JoinSlash(SubSeq(SplitSlash(path), 1, k))

\* C16 (Spec), as the spec states it: in ensure_folder_path(s1/.../sn) the
\* k-th lookup targets exactly the path s1/.../sk and a folder is created as
\* the child of the item of the previous prefix; when the call returns, every
\* prefix is a folder of the remote tree and the item returned is the one at
\* s1/.../sn, the drive root for the empty path.
C16_EnsuredPathResolved ==
    LET n == IF efp.folder_path = <<>> THEN 0 ELSE Len(SplitSlash(efp.folder_path))
        k == n - Len(efp.parts) + 1
    IN  /\ (pc = "http" /\ http.ret = "efp_lookup") =>
              http.path = PrefixOf(efp.folder_path, k)
        /\ (pc = "http" /\ http.ret = "efp_created") =>
              /\ http.parent = (IF k = 1 THEN rootItem.id
                                ELSE PrefixOf(efp.folder_path, k - 1))
              /\ http.name = SplitSlash(efp.folder_path)[k]
        /\ (pc \in {"cmd_target", "cmd_files"} /\ efp # NoEfp) =>
              /\ \A j \in 1..n : PrefixOf(efp.folder_path, j) \in remote
              /\ efp.current = (IF n = 0 THEN rootItem ELSE ItemAt(efp.folder_path))

\* C17 (Spec), as the spec states it: every remote call of an upload run, the
\* lookups and folder creates included, is bounded by the run's retry_max
\* attempts and backs off with the run's retry_backoff base.
C17_RunPolicyOnEveryCall ==
    (pc = "http" /\ http.op \in {"lookup", "create", "put", "session", "chunk"}) =>
        /\ http.rm = args.retry_max[1]
        /\ http.rb = args.retry_backoff[1]
        /\ Len(reqs) <= args.retry_max[1]

UploadEnded == pc \in {"returned", "end"} /\ outcome \in {"returned", "error"}

\* C18 (SpecUploadFair): every upload_file call ends, by a return or a raised
\* error, whatever the remote answers; and with chunk size C >= 1 and
\* retry_max R >= 1 it sends at most R whole-file PUTs, at most R
\* session creations and at most ceil(S/C) * R chunk PUTs, bytes_sent never
\* passing S and growing by the chunk's length with every accepted chunk.
C18_UploadTerminates ==
    /\ <>UploadEnded
    /\ [](LET R == IF args.retry_max = NotGiven THEN sp.retry_max ELSE args.retry_max[1]
          IN  (R >= 1 /\ args.chunk_size >= 1) =>
                 /\ up.wire["put"] <= R
                 /\ up.wire["session"] <= R
                 /\ up.wire["chunk"] <= CeilDiv(up.size, args.chunk_size) * R
                 /\ up.calls["chunk"] <= CeilDiv(up.size, args.chunk_size)
                 /\ up.bytes_sent <= up.size)
    /\ [][up'.bytes_sent # up.bytes_sent =>
             /\ pc = "uf_chunk_ret" /\ resp \in {200, 201, 202}
             /\ up'.bytes_sent > up.bytes_sent]_vars

\* C18 witness: 3 bytes in chunks of 1 with 2 attempts each: every request was
\* answered 503 once, and the upload returned after 2 session requests and 6
\* chunk PUTs
C18_Witness ==
    /\ UploadEnded
    /\ outcome = "returned"
    /\ up.size = 3
    /\ args.chunk_size = 1
    /\ args.retry_max = Given(2)
    /\ up.wire["session"] = 2
    /\ up.wire["chunk"] = 6

\* C19 (SpecUpload), as the claim states it: whenever _chunked_upload returns
\* normally, bytes_sent equals file_size and the last range sent ended at
\* file_size - 1, also for a file that yields fewer bytes than its recorded
\* size and for every chunk_size.
C19_ReturnMeansAllSent ==
    (pc = "returned" /\ ~args.dry_run /\ up.calls["session"] = 1) =>
        /\ up.bytes_sent = up.size
        /\ up.ranges # <<>>
        /\ up.ranges[Len(up.ranges)][2] = up.size - 1

\* C20 (SpecRetry), as the claim states it: for every integer retry_max, 0 and
\* negative values included, a call of _request_with_retry issues at least
\* one request and ends by returning the response to its last request.
C20_AlwaysOneRequestAndAResponse ==
    pc \in {"returned", "end"} =>
        /\ outcome = "returned"
        /\ Len(reqs) >= 1
        /\ resp = reqs[Len(reqs)]

=============================================================================
